---- MODULE Spec2Model ----
(***************************************************************************)
(* Model of src/agent.py: the AssistantFnc frame-capture controller.       *)
(*                                                                         *)
(* One asyncio event loop runs everything, so every action below is the    *)
(* code between two awaits: a capture_and_add_image call runs from its     *)
(* entry to its first asyncio.sleep (or to its return), then from one      *)
(* sleep to the next; a process_video_stream task runs from a frame event  *)
(* to its break.  The framework (room, publications, video stream, LLM     *)
(* turns, wall clock) is the environment.                                  *)
(***************************************************************************)
EXTENDS Integers, Sequences, FiniteSets, TLC

\* ---------------------------------------------------------------- bounds
\* Number of capture_and_add_image invocations the LLM makes.
NumCalls == 2
\* Frames one video stream yields (the task breaks after the first).
MaxFrames == 2
\* Wall clock readings, in ticks: 0..MaxClock.
MaxClock == 2
\* Clock ticks per second of the "%Y%m%d-%H%M%S" timestamp.
TicksPerSecond == 2

\* Remote participants of a room, and publications of one participant, in
\* the rooms _get_video_publication is applied to.
MaxParticipants == 2
MaxPublications == 2

\* ------------------------------------------------------ program constants
\* range(10) in _subscribe_and_capture_frame.
PollLimit == 10

Calls == 1..NumCalls

VARIABLES
    room,                \* self.room: None, or the room with its participants
    chat_ctx,            \* self.chat_ctx: None, or the ordered entries
    latest_video_frame,  \* self.latest_video_frame: NoFrame is None
    subscribed,          \* publications whose subscription flag is true
    set_subscribed_log,  \* per call, the arguments of its set_subscribed calls
    pc,                  \* per call: idle, sleeping, returned, raised
    video_publication,   \* per call, the local video_publication
    polls,               \* per call in its loop, asyncio.sleep(0.5) waits completed
    result,              \* per call, the string returned
    appended,            \* per call, the frame it appended to chat_ctx
    ended_before,        \* per call, the calls that had ended when it started
    task,                \* per subscription: none, pending, iterating, done
    yielded,             \* per subscription, frames its video stream yielded
    now,                 \* the latest datetime.now() reading, in ticks
    files,               \* images/: timestamp -> frame saved under that name
    framework_faults     \* whether framework operations may raise

vars == <<room, chat_ctx, latest_video_frame, subscribed, set_subscribed_log,
          pc, video_publication, polls, result, appended, ended_before,
          task, yielded, now, files, framework_faults>>

\* ------------------------------------------------------------ data values
NoFrame == [src |-> 0, seq |-> 0, width |-> 0, height |-> 0]
NoPub == <<0, 0>>

\* Pixel dimensions (width, height) a frame may have.
Dims == {<<1, 2>>, <<2, 1>>}

VideoFrame(t, n, d) == [src |-> t, seq |-> n, width |-> d[1], height |-> d[2]]

\* Python truthiness of self.latest_video_frame: None is falsy, a frame is not.
Truthy(f) == f # NoFrame

\* Participants' publications (kinds, in dict iteration order) of the room
\* the job connects to.
Topologies ==
    { << <<"audio">> >>,
      << <<"audio", "video">> >>,
      << <<>>, <<"video", "video">> >> }

SystemEntry == [role |-> "system", image |-> NoFrame]
ImageEntry(f) == [role |-> "user", image |-> f]

\* The strings capture_and_add_image returns.
NoResult == [kind |-> "none", width |-> 0, height |-> 0]
ResNoChatCtx == [kind |-> "Error: chat_ctx is not set", width |-> 0, height |-> 0]
ResNoTrack == [kind |-> "No video track available", width |-> 0, height |-> 0]
ResNoFrame == [kind |-> "No video frame available", width |-> 0, height |-> 0]
ResError == [kind |-> "Error: e", width |-> 0, height |-> 0]
ResCaptured(f) ==
    [kind |-> "Image captured and added to context. Dimensions: WxH",
     width |-> f.width, height |-> f.height]

\* Framework operations that may raise when framework_faults is on.
Ops == {"subscribe", "unsubscribe", "append"}
FaultChoices == IF framework_faults THEN SUBSET Ops ELSE {{}}

Min(S) == CHOOSE x \in S : \A y \in S : x <= y

\* ----------------------------------------------------------- pure helpers
VideoKeys(pubs) == {k \in 1..Len(pubs) : pubs[k] = "video"}

\* Mutant: the kind test of line 105 left out (the first publication of
\* the first participant that has any).
_get_video_publication_anykind(r) ==
    LET ps == {p \in 1..Len(r.remote_participants) :
                   Len(r.remote_participants[p]) > 0}
    IN  IF ps = {} THEN NoPub ELSE <<Min(ps), 1>>

\* Mutant: the search without its early return (the last match wins).
_get_video_publication_last(r) ==
    LET ps == {p \in 1..Len(r.remote_participants) :
                   VideoKeys(r.remote_participants[p]) # {}}
        last(S) == CHOOSE x \in S : \A y \in S : x >= y
    IN  IF ps = {} THEN NoPub
        ELSE <<last(ps), last(VideoKeys(r.remote_participants[last(ps)]))>>

\* _get_video_publication: the first video-kind publication in iteration
\* order of room r's participants and their publications, or None.
_get_video_publication(r) ==
    LET ps == {p \in 1..Len(r.remote_participants) :
                   VideoKeys(r.remote_participants[p]) # {}}
    IN  IF ps = {} THEN NoPub
        ELSE <<Min(ps), Min(VideoKeys(r.remote_participants[Min(ps)]))>>

\* datetime.now().strftime("%Y%m%d-%H%M%S"): the clock cut to whole seconds.
strftime(t) == t \div TicksPerSecond

Names == 0..strftime(MaxClock)

\* save_photo: the images/ directory after saving video_frame when
\* datetime.now() reads t; ok is whether Image.frombytes and image.save went
\* through (a failure is logged only).
save_photo(dir, video_frame, t, ok) ==
    IF video_frame = NoFrame \/ ~ok THEN dir
    ELSE [dir EXCEPT ![strftime(t)] = video_frame]

\* ------------------------------------------------------------------- Init
Init ==
    /\ room = [isNone |-> TRUE, remote_participants |-> <<>>]
    /\ chat_ctx \in {[isNone |-> TRUE, entries |-> <<>>],
                     [isNone |-> FALSE, entries |-> <<SystemEntry>>]}
    /\ latest_video_frame = NoFrame
    /\ subscribed = {}
    /\ set_subscribed_log = [c \in Calls |-> <<>>]
    /\ pc = [c \in Calls |-> "idle"]
    /\ video_publication = [c \in Calls |-> NoPub]
    /\ polls = [c \in Calls |-> 0]
    /\ result = [c \in Calls |-> NoResult]
    /\ appended = [c \in Calls |-> NoFrame]
    /\ ended_before = [c \in Calls |-> {}]
    /\ task = [c \in Calls |-> "none"]
    /\ yielded = [c \in Calls |-> 0]
    /\ now = 0
    /\ files = [n \in Names |-> NoFrame]
    /\ framework_faults = FALSE

\* ------------------------------------------------- capture_and_add_image
\* Mutant: the loop without its break (it always sleeps 10 times).
LoopEnds_nobreak(n, frame) == n >= PollLimit

\* Mutant: the loop over range(11).
LoopEnds_range11(n, frame) == n >= PollLimit + 1 \/ Truthy(frame)

\* _subscribe_and_capture_frame's loop, after n completed sleeps: it ends when
\* range(10) is exhausted or the slot holds a frame (the break).
LoopEnds(n, frame) == n >= PollLimit \/ Truthy(frame)

\* Mutant: the test of line 119 inverted.
_unsubscribe_from_video_inverted(publication, subs) ==
    IF publication = NoPub THEN subs \ {publication} ELSE subs

\* _unsubscribe_from_video: the subscribed publications after it.
_unsubscribe_from_video(publication, subs) ==
    IF publication # NoPub THEN subs \ {publication} ELSE subs

\* Mutant: the check of lines 86-88 left out.
TryResult_nocheck(frame, appendOk) ==
    IF appendOk THEN ResCaptured(frame) ELSE ResError

\* What the try body returns once _subscribe_and_capture_frame is back:
\* appendOk is whether chat_ctx.append went through.
TryResult(frame, appendOk) ==
    IF ~Truthy(frame) THEN ResNoFrame
    ELSE IF appendOk THEN ResCaptured(frame)
    ELSE ResError

\* Mutant: the append done before the check of lines 86-88.
TryChat_nocheck(ctx, frame, appendOk) ==
    IF appendOk
    THEN [ctx EXCEPT !.entries = Append(@, ImageEntry(frame))]
    ELSE ctx

\* The chat context after the try body.
TryChat(ctx, frame, appendOk) ==
    IF Truthy(frame) /\ appendOk
    THEN [ctx EXCEPT !.entries = Append(@, ImageEntry(frame))]
    ELSE ctx

\* The finally block and the call's end.  pub is the local
\* video_publication, subs the subscribed publications and log the call's
\* set_subscribed arguments when the block is entered, ret what the
\* try/except returns; a raise in the block replaces the return and skips
\* line 99.
Finally(c, pub, subs, log, ret, f) ==
    /\ set_subscribed_log' =
           [set_subscribed_log EXCEPT ![c] = Append(log, FALSE)]
    /\ IF "unsubscribe" \in f
       THEN /\ pc' = [pc EXCEPT ![c] = "raised"]
            /\ subscribed' = subs
            /\ UNCHANGED <<latest_video_frame, result>>
       ELSE /\ subscribed' = _unsubscribe_from_video(pub, subs)
            /\ latest_video_frame' = NoFrame
            /\ pc' = [pc EXCEPT ![c] = "returned"]
            /\ result' = [result EXCEPT ![c] = ret]

\* Lines 86-99, run without an await once the polling loop has ended.
CaptureTail(c, pub, subs, log, f) ==
    LET frame == latest_video_frame
        appendOk == "append" \notin f
    IN  /\ chat_ctx' = TryChat(chat_ctx, frame, appendOk)
        /\ appended' = [appended EXCEPT ![c] =
               IF Truthy(frame) /\ appendOk THEN frame ELSE NoFrame]
        /\ Finally(c, pub, subs, log, TryResult(frame, appendOk), f)

\* Lines 84-99 from the call's entry, with fault choice f: to the first
\* asyncio.sleep, or to the end when the loop ends at once or
\* set_subscribed(True) raises (except, then finally).
TryFromEntry(c, pub, f) ==
    IF "subscribe" \in f
    THEN /\ UNCHANGED <<chat_ctx, appended, task>>
         /\ Finally(c, pub, subscribed, <<TRUE>>, ResError, f)
    ELSE /\ task' = [task EXCEPT ![c] = "pending"]
         /\ IF LoopEnds(0, latest_video_frame)
            THEN CaptureTail(c, pub, subscribed \cup {pub}, <<TRUE>>, f)
            ELSE /\ subscribed' = subscribed \cup {pub}
                 /\ set_subscribed_log' =
                        [set_subscribed_log EXCEPT ![c] = <<TRUE>>]
                 /\ pc' = [pc EXCEPT ![c] = "sleeping"]
                 /\ UNCHANGED <<chat_ctx, latest_video_frame, result,
                                appended>>

\* Mutant: the test of line 75 made after the room was inspected, so that
\* it no longer guards the call's entry.
ChatCtxIsNone_unchecked(ctx) == FALSE

\* The test of line 75: self.chat_ctx is None.
ChatCtxIsNone(ctx) == ctx.isNone

\* The call, from its entry to its first asyncio.sleep or to its end.
capture_and_add_image(c) ==
    /\ pc[c] = "idle"
    /\ IF c = 1 THEN TRUE ELSE pc[c - 1] # "idle"
    /\ ended_before' = [ended_before EXCEPT ![c] =
           {d \in Calls : pc[d] \in {"returned", "raised"}}]
    /\ UNCHANGED <<room, polls, yielded, now, files, framework_faults>>
    /\ IF ChatCtxIsNone(chat_ctx)
       THEN /\ pc' = [pc EXCEPT ![c] = "returned"]
            /\ result' = [result EXCEPT ![c] = ResNoChatCtx]
            /\ UNCHANGED <<chat_ctx, latest_video_frame, subscribed,
                           set_subscribed_log, video_publication,
                           appended, task>>
       ELSE IF room.isNone
       THEN \* self.room.remote_participants on None, outside the try
            /\ pc' = [pc EXCEPT ![c] = "raised"]
            /\ UNCHANGED <<chat_ctx, latest_video_frame, subscribed,
                           set_subscribed_log, video_publication,
                           result, appended, task>>
       ELSE IF _get_video_publication(room) = NoPub
       THEN /\ pc' = [pc EXCEPT ![c] = "returned"]
            /\ result' = [result EXCEPT ![c] = ResNoTrack]
            /\ UNCHANGED <<chat_ctx, latest_video_frame, subscribed,
                           set_subscribed_log, video_publication,
                           appended, task>>
       ELSE /\ video_publication' = [video_publication EXCEPT ![c] =
                   _get_video_publication(room)]
            /\ \E f \in FaultChoices :
                   TryFromEntry(c, _get_video_publication(room), f)

\* The call resumed after one asyncio.sleep(0.5): the next loop iteration,
\* and lines 86-99 when the loop ends.
ResumeAfterSleep(c) ==
    /\ pc[c] = "sleeping"
    /\ polls' = [polls EXCEPT ![c] =
           IF LoopEnds(@ + 1, latest_video_frame) THEN 0 ELSE @ + 1]
    /\ UNCHANGED <<room, video_publication, ended_before, task, yielded,
                   now, files, framework_faults>>
    /\ IF LoopEnds(polls[c] + 1, latest_video_frame)
       THEN \E f \in FaultChoices :
                CaptureTail(c, video_publication[c], subscribed,
                            set_subscribed_log[c], f)
       ELSE UNCHANGED <<chat_ctx, latest_video_frame, subscribed,
                        set_subscribed_log, pc, result, appended>>

\* -------------------------------------------------- the background task
\* on_track_subscribed for a track of the given kind: a video track gets a
\* process_video_stream task, any other track is ignored.
on_track_subscribed(c, kind) ==
    /\ task' = IF kind = "video" THEN [task EXCEPT ![c] = "iterating"]
               ELSE task
    /\ UNCHANGED <<room, chat_ctx, latest_video_frame, subscribed,
                   set_subscribed_log, pc, video_publication, polls, result,
                   appended, ended_before, yielded, now, files,
                   framework_faults>>

\* The track_subscribed event that answers call c's set_subscribed(True)
\* on its video publication arrives.
VideoTrackSubscribed(c) ==
    /\ task[c] = "pending"
    /\ on_track_subscribed(c, "video")

\* The track_subscribed event of an audio track the assistant subscribed
\* to arrives.
AudioTrackSubscribed ==
    /\ ~room.isNone
    /\ on_track_subscribed(1, "audio")

\* Mutant: the loop body without its break.
process_video_stream_nobreak(c, frame, t, saveOk) ==
    /\ latest_video_frame' = frame
    /\ files' = save_photo(files, frame, t, saveOk)
    /\ now' = t
    /\ task' = task

\* The body of process_video_stream's async for, for one frame event:
\* store the frame, save it, break.
process_video_stream(c, frame, t, saveOk) ==
    /\ latest_video_frame' = frame
    /\ files' = save_photo(files, frame, t, saveOk)
    /\ now' = t
    /\ task' = [task EXCEPT ![c] = "done"]

\* The video stream of call c's subscription yields its next frame to the
\* iterating task; the wall clock has moved on to some t since it was last
\* read.
StreamFrame(c) ==
    /\ task[c] = "iterating"
    /\ yielded[c] < MaxFrames
    /\ yielded' = [yielded EXCEPT ![c] = @ + 1]
    /\ \E d \in Dims, t \in now..MaxClock, saveOk \in BOOLEAN :
           process_video_stream(c, VideoFrame(c, yielded[c] + 1, d), t, saveOk)
    /\ UNCHANGED <<room, chat_ctx, subscribed, set_subscribed_log, pc,
                   video_publication, polls, result, appended, ended_before,
                   framework_faults>>

\* Mutant: the except clause also resets the latest-frame slot.
StreamError_clears(c) ==
    /\ task[c] = "iterating"
    /\ task' = [task EXCEPT ![c] = "done"]
    /\ latest_video_frame' = NoFrame
    /\ UNCHANGED <<room, chat_ctx, subscribed,
                   set_subscribed_log, pc, video_publication, polls, result,
                   appended, ended_before, yielded, now, files,
                   framework_faults>>

\* The video stream raises: the except clause logs it and the task ends.
StreamError(c) ==
    /\ task[c] = "iterating"
    /\ task' = [task EXCEPT ![c] = "done"]
    /\ UNCHANGED <<room, chat_ctx, latest_video_frame, subscribed,
                   set_subscribed_log, pc, video_publication, polls, result,
                   appended, ended_before, yielded, now, files,
                   framework_faults>>

\* The stream has a further frame after the task's break: nothing iterates
\* the stream any more.
LaterFrame(c) ==
    /\ task[c] = "done"
    /\ yielded[c] >= 1
    /\ yielded[c] < MaxFrames
    /\ yielded' = [yielded EXCEPT ![c] = @ + 1]
    /\ UNCHANGED <<room, chat_ctx, latest_video_frame, subscribed,
                   set_subscribed_log, pc, video_publication, polls, result,
                   appended, ended_before, task, now, files,
                   framework_faults>>

\* ------------------------------------------------------- the environment
\* entrypoint, line 178: fnc_ctx.room = ctx.room.
entrypoint ==
    /\ room.isNone
    /\ \E t \in Topologies :
           room' = [isNone |-> FALSE, remote_participants |-> t]
    /\ UNCHANGED <<chat_ctx, latest_video_frame, subscribed,
                   set_subscribed_log, pc, video_publication, polls, result,
                   appended, ended_before, task, yielded, now, files,
                   framework_faults>>

\* Framework operations start to fail (a participant leaves, the
\* connection drops).
FrameworkDegrades ==
    /\ ~framework_faults
    /\ framework_faults' = TRUE
    /\ UNCHANGED <<room, chat_ctx, latest_video_frame, subscribed,
                   set_subscribed_log, pc, video_publication, polls, result,
                   appended, ended_before, task, yielded, now, files>>

\* capture_and_add_image as the assistant invokes it: the assistant is
\* started (line 198) after the room is set (line 178).
ToolCall(c) == ~room.isNone /\ capture_and_add_image(c)

\* capture_and_add_image invoked on the object before the room is set.
EarlyCall(c) == room.isNone /\ capture_and_add_image(c)

Next ==
    \/ entrypoint
    \/ \E c \in Calls : ToolCall(c)
    \/ \E c \in Calls : ResumeAfterSleep(c)
    \/ \E c \in Calls : VideoTrackSubscribed(c)
    \/ AudioTrackSubscribed
    \/ \E c \in Calls : StreamFrame(c)
    \/ \E c \in Calls : StreamError(c)
    \/ \E c \in Calls : LaterFrame(c)

Spec == Init /\ [][Next]_vars

NextFaults ==
    \/ Next
    \/ FrameworkDegrades
    \/ \E c \in Calls : EarlyCall(c)

SpecFaults == Init /\ [][NextFaults]_vars

\* Every room of up to MaxParticipants participants with up to
\* MaxPublications audio or video publications each.
PublicationLists ==
    UNION {[1..n -> {"audio", "video"}] : n \in 0..MaxPublications}

Rooms == UNION {[1..n -> PublicationLists] : n \in 0..MaxParticipants}

\* The state once entrypoint has set the room, for any such room.
InitSelect ==
    /\ room \in {[isNone |-> FALSE, remote_participants |-> t] : t \in Rooms}
    /\ chat_ctx \in {[isNone |-> TRUE, entries |-> <<>>],
                     [isNone |-> FALSE, entries |-> <<SystemEntry>>]}
    /\ latest_video_frame = NoFrame
    /\ subscribed = {}
    /\ set_subscribed_log = [c \in Calls |-> <<>>]
    /\ pc = [c \in Calls |-> "idle"]
    /\ video_publication = [c \in Calls |-> NoPub]
    /\ polls = [c \in Calls |-> 0]
    /\ result = [c \in Calls |-> NoResult]
    /\ appended = [c \in Calls |-> NoFrame]
    /\ ended_before = [c \in Calls |-> {}]
    /\ task = [c \in Calls |-> "none"]
    /\ yielded = [c \in Calls |-> 0]
    /\ now = 0
    /\ files = [n \in Names |-> NoFrame]
    /\ framework_faults = FALSE

\* Calls entering capture_and_add_image in any such room: the publication
\* each selects at line 79.
NextSelect == \E c \in Calls : ToolCall(c)

SelectSpec == InitSelect /\ [][NextSelect]_vars

\* The event loop resumes every coroutine whose asyncio.sleep has elapsed.
FairSpec == Spec /\ \A c \in Calls : WF_vars(ResumeAfterSleep(c))

\* ------------------------------------------------------------ properties
\* Call c runs in this step.
Steps(c) == pc'[c] # pc[c] \/ polls'[c] # polls[c]

\* Call c returns a string in this step.
Returns(c) == pc[c] # "returned" /\ pc'[c] = "returned"

Captured(r) ==
    r.kind = "Image captured and added to context. Dimensions: WxH"

\* C1: whenever a capture_and_add_image call returns (success, timeout or
\* error string), the subscription flag of the publication it selected is
\* false right after the return, in any sequence or overlap of calls.
C1_UnsubscribedOnReturn ==
    [][\A c \in Calls :
           Returns(c) => video_publication'[c] \notin subscribed']_vars

\* A call subscribed, captured a frame, and returned with its publication
\* unsubscribed.
C1_Witness ==
    \E c \in Calls :
        /\ pc[c] = "returned"
        /\ Captured(result[c])
        /\ set_subscribed_log[c] = <<TRUE, FALSE>>
        /\ video_publication[c] # NoPub
        /\ video_publication[c] \notin subscribed

\* C2: a call that started after an earlier call had ended never appends a
\* frame delivered by the video stream task of that earlier call's
\* subscription.
C2_NoFrameOfEarlierCall ==
    \A c \in Calls : \A d \in ended_before[c] :
        Truthy(appended[c]) => appended[c].src # d

\* C3: no fault propagates out of a capture_and_add_image call.
C3_NeverRaises == \A c \in Calls : pc[c] # "raised"

\* C4: a call whose 10th sleep ends with the latest-frame slot still empty
\* returns "No video frame available", appends nothing to the chat context
\* and leaves its publication unsubscribed.
C4_TimeoutResult ==
    [][\A c \in Calls :
           (/\ pc[c] = "sleeping"
            /\ polls[c] = PollLimit - 1
            /\ Steps(c)
            /\ ~Truthy(latest_video_frame))
           => /\ pc'[c] = "returned"
              /\ result'[c] = ResNoFrame
              /\ chat_ctx' = chat_ctx
              /\ appended'[c] = NoFrame
              /\ video_publication[c] # NoPub
              /\ video_publication[c] \notin subscribed']_vars

\* A call timed out on a publication it had subscribed to.
C4_Witness ==
    \E c \in Calls :
        /\ pc[c] = "returned"
        /\ result[c] = ResNoFrame
        /\ set_subscribed_log[c] = <<TRUE, FALSE>>
        /\ appended[c] = NoFrame
        /\ video_publication[c] \notin subscribed

\* C5: when a call wakes from its k-th sleep (k = 1..10) and the slot holds
\* a frame stored meanwhile, the call polls no further: it returns the
\* success message with that frame's width and height, has appended that
\* frame, and the slot is empty afterwards.
C5_FrameEndsPolling ==
    [][\A c \in Calls :
           (/\ pc[c] = "sleeping"
            /\ polls[c] \in 0..(PollLimit - 1)
            /\ Steps(c)
            /\ Truthy(latest_video_frame))
           => /\ pc'[c] = "returned"
              /\ Captured(result'[c])
              /\ result'[c].width = latest_video_frame.width
              /\ result'[c].height = latest_video_frame.height
              /\ appended'[c] = latest_video_frame
              /\ latest_video_frame' = NoFrame]_vars

\* A call returned success with the dimensions of a frame its own
\* subscription delivered while it waited, and the slot is empty.
C5_Witness ==
    \E c \in Calls :
        /\ pc[c] = "returned"
        /\ Captured(result[c])
        /\ appended[c].src = c
        /\ result[c].width = appended[c].width
        /\ result[c].height = appended[c].height
        /\ latest_video_frame = NoFrame

\* No participant of the room has a video publication.
NoVideoPublication ==
    \A p \in 1..Len(room.remote_participants) :
        \A k \in 1..Len(room.remote_participants[p]) :
            room.remote_participants[p][k] # "video"

\* C6: with the chat context and the room set and no video publication in
\* the room, a call returns "No video track available" at once, calls
\* set_subscribed on nothing, and leaves chat context and slot unchanged.
C6_NoTrackNoToggle ==
    [][\A c \in Calls :
           (/\ pc[c] = "idle"
            /\ Steps(c)
            /\ ~chat_ctx.isNone
            /\ ~room.isNone
            /\ NoVideoPublication)
           => /\ pc'[c] = "returned"
              /\ result'[c] = ResNoTrack
              /\ set_subscribed_log' = set_subscribed_log
              /\ subscribed' = subscribed
              /\ chat_ctx' = chat_ctx
              /\ latest_video_frame' = latest_video_frame]_vars

\* A call returned "No video track available" in a room with participants
\* and made no set_subscribed call.
C6_Witness ==
    \E c \in Calls :
        /\ pc[c] = "returned"
        /\ result[c] = ResNoTrack
        /\ Len(room.remote_participants) > 0
        /\ set_subscribed_log[c] = <<>>

\* C7: a call that returns success has, in the step it returns, appended
\* exactly one entry to the end of the chat context: role "user", holding
\* the frame it captured; every other step of a call that does not raise
\* leaves the entries unchanged.
C7_ChatEffect ==
    [][\A c \in Calls :
           (Steps(c) /\ pc'[c] # "raised")
           => IF Returns(c) /\ Captured(result'[c])
              THEN /\ Truthy(latest_video_frame)
                   /\ chat_ctx'.entries = Append(chat_ctx.entries,
                          [role |-> "user", image |-> latest_video_frame])
                   /\ chat_ctx'.isNone = chat_ctx.isNone
              ELSE chat_ctx' = chat_ctx]_vars

\* A call returned success and its frame is the last chat entry; another
\* call returned a failure string.
C7_Witness ==
    \E c, d \in Calls :
        /\ pc[c] = "returned"
        /\ Captured(result[c])
        /\ chat_ctx.entries[Len(chat_ctx.entries)] =
               [role |-> "user", image |-> appended[c]]
        /\ pc[d] = "returned"
        /\ ~Captured(result[d])

\* C8: every write of a frame to the latest-frame slot is of the first
\* frame of a stream that had yielded none before; a later frame of the
\* same subscription never reaches the slot.
C8_FirstFrameOnly ==
    [][(latest_video_frame' # latest_video_frame
            /\ Truthy(latest_video_frame'))
       => /\ latest_video_frame'.seq = 1
          /\ yielded[latest_video_frame'.src] = 0]_vars

\* A stream yielded a second frame while its first is still in the slot.
C8_Witness ==
    \E c \in Calls :
        /\ yielded[c] >= 2
        /\ latest_video_frame.src = c
        /\ latest_video_frame.seq = 1

\* C9: a call is never in more than its 10th sleep, every sleeping call
\* returns, and a call that ends its wait without a frame does so after
\* exactly 10 sleeps with the "No video frame available" string.
C9_Terminates ==
    /\ [](\A c \in Calls : pc[c] = "sleeping" => polls[c] < PollLimit)
    /\ \A c \in Calls : (pc[c] = "sleeping") ~> (pc[c] = "returned")
    /\ [][\A c \in Calls :
              (/\ pc[c] = "sleeping"
               /\ pc'[c] # "sleeping"
               /\ ~Truthy(latest_video_frame))
              => /\ polls[c] = PollLimit - 1
                 /\ result'[c] = ResNoFrame]_vars

\* A call whose stream never yielded a frame has returned the failure
\* string.
C9_Witness ==
    \E c \in Calls :
        /\ pc[c] = "returned"
        /\ result[c] = ResNoFrame
        /\ yielded[c] = 0

\* C10: a saved image is never overwritten: once a name holds a frame, no
\* later save_photo stores another frame under that name.
C10_NoOverwrite ==
    [][\A n \in Names :
           files[n] # NoFrame => files'[n] = files[n]]_vars

\* C11: while a call waits for a frame (it is in one of its sleeps), the
\* publication it selected is subscribed, also when calls overlap.
C11_SubscribedWhileWaiting ==
    \A c \in Calls :
        pc[c] = "sleeping" => video_publication[c] \in subscribed

\* C12: whenever no capture call is in progress the latest-frame slot is
\* empty (every call clears it on exit), so a later call cannot find a frame
\* stored before it subscribed.
C12_SlotEmptyWhenIdle ==
    (\A c \in Calls : pc[c] # "sleeping") => latest_video_frame = NoFrame

\* The process_video_stream task of call c's subscription ends in this step
\* by a fault of its video stream (it ends without having stored a frame).
StreamFaults(c) ==
    task[c] = "iterating" /\ task'[c] = "done" /\ yielded'[c] = yielded[c]

\* C13: a fault of the video stream ends the background task and changes
\* neither the latest-frame slot, the chat context, the saved images nor any
\* call; a call waiting at that moment goes on and returns, with "No video
\* frame available" when the slot is empty at its last check.
C13_StreamFaultContained ==
    /\ [][\A c \in Calls :
              StreamFaults(c)
              => /\ latest_video_frame' = latest_video_frame
                 /\ chat_ctx' = chat_ctx
                 /\ files' = files
                 /\ subscribed' = subscribed
                 /\ pc' = pc
                 /\ polls' = polls
                 /\ result' = result]_vars
    /\ \A c \in Calls :
           (pc[c] = "sleeping" /\ task[c] = "done" /\ yielded[c] = 0)
           ~> (pc[c] = "returned")
    /\ [][\A c \in Calls :
              (/\ pc[c] = "sleeping"
               /\ task[c] = "done"
               /\ yielded[c] = 0
               /\ pc'[c] # "sleeping")
              => /\ pc'[c] = "returned"
                 /\ (Truthy(latest_video_frame) => Captured(result'[c]))
                 /\ (~Truthy(latest_video_frame)
                        => result'[c] = ResNoFrame)]_vars

\* A call is waiting in its loop, the task of its subscription has ended by
\* a stream fault, and a frame of another subscription is in the slot.
C13_Witness ==
    \E c \in Calls :
        /\ pc[c] = "sleeping"
        /\ polls[c] >= 1
        /\ task[c] = "done"
        /\ yielded[c] = 0
        /\ Truthy(latest_video_frame)

\* C14: a call made while the chat context is not set returns
\* "Error: chat_ctx is not set" at once, also when the room is not set:
\* it selects no publication, calls set_subscribed on nothing, starts no
\* stream task and leaves the latest-frame slot unchanged.
C14_NoChatCtxFirst ==
    [][\A c \in Calls :
           (pc[c] = "idle" /\ Steps(c) /\ chat_ctx.isNone)
           => /\ pc'[c] = "returned"
              /\ result'[c] = ResNoChatCtx
              /\ video_publication'[c] = NoPub
              /\ set_subscribed_log' = set_subscribed_log
              /\ subscribed' = subscribed
              /\ task' = task
              /\ latest_video_frame' = latest_video_frame
              /\ chat_ctx' = chat_ctx]_vars

\* A call returned the chat_ctx error although the room was never set.
C14_Witness ==
    \E c \in Calls :
        /\ pc[c] = "returned"
        /\ result[c] = ResNoChatCtx
        /\ chat_ctx.isNone
        /\ room.isNone
        /\ video_publication[c] = NoPub

\* Publication k of participant p exists and is of video kind.
IsVideoAt(p, k) ==
    /\ p \in 1..Len(room.remote_participants)
    /\ k \in 1..Len(room.remote_participants[p])
    /\ room.remote_participants[p][k] = "video"

\* Publication q comes before publication pub in iteration order.
Earlier(q, pub) == q[1] < pub[1] \/ (q[1] = pub[1] /\ q[2] < pub[2])

\* C15: a call that got past the chat_ctx check has selected the first
\* video publication in iteration order (no video publication comes before
\* it, participants without one and non-video publications are skipped);
\* it selected none, and returned "No video track available", exactly when
\* the room has no video publication.
C15_FirstVideoPublication ==
    \A c \in Calls :
        (pc[c] # "idle" /\ ~chat_ctx.isNone /\ ~room.isNone)
        => IF NoVideoPublication
           THEN video_publication[c] = NoPub /\ result[c] = ResNoTrack
           ELSE /\ result[c] # ResNoTrack
                /\ IsVideoAt(video_publication[c][1], video_publication[c][2])
                /\ \A p \in 1..Len(room.remote_participants) :
                       \A k \in 1..Len(room.remote_participants[p]) :
                           IsVideoAt(p, k)
                           => ~Earlier(<<p, k>>, video_publication[c])

\* A call selected the second publication of the second participant: the
\* first participant has only an audio publication, and a second video
\* publication follows the selected one.
C15_Witness ==
    \E c \in Calls :
        /\ pc[c] = "sleeping"
        /\ room.remote_participants =
               << <<"audio">>, <<"audio", "video">> >>
        /\ video_publication[c] = <<2, 2>>

\* C16: a frame written once to the latest-frame slot is appended to the
\* chat context by at most one call, also when calls overlap: no two calls
\* have appended the same frame (a frame carries its writing task and its
\* number in that task's stream, so equal frames are one write).
C16_AppendedByOneCall ==
    \A c, d \in Calls :
        (c # d /\ Truthy(appended[c])) => appended[c] # appended[d]

====
